---- MODULE Spec2Model ----
(***************************************************************************)
(* Model of pygdsii/elements.py: the element decoder ElementBase.load and  *)
(* the read_element grammars of the seven GDSII element classes.           *)
(*                                                                         *)
(* One call of ElementBase.load(recs, lastrec) is modelled.  The record    *)
(* generator `recs` is lazy: every next(recs) either yields some record or *)
(* is exhausted.  The control position pc names the source line of the     *)
(* statement that runs next.                                               *)
(*                                                                         *)
(* A second specification, TwoLoads, runs two calls of load over two       *)
(* streams with their steps interleaved; there the elements are objects of *)
(* a heap and each call holds a reference to the one it constructs.        *)
(***************************************************************************)
EXTENDS Integers, Sequences, FiniteSets, TLC

\* ------------------------------------------------------------------ bounds
MaxPoints == 6      \* longest point list an XY record carries
MaxSize == 2        \* longest data list of a single-valued record
MaxSeed == 2        \* number of distinct payload families

\* ------------------------------------------------------------------ tags
StartTags == {"BOUNDARY", "PATH", "SREF", "AREF", "TEXT", "NODE", "BOX"}

\* Tags of records that carry one value and are size-checked with check_size(1).
SingleTags == {"LAYER", "DATATYPE", "TEXTTYPE", "NODETYPE", "BOXTYPE", "PATHTYPE",
               "WIDTH", "BGNEXTN", "ENDEXTN", "MAG", "ANGLE", "PROPATTR"}

\* Tags whose data is taken whole, without a size check.
WholeTags == {"ELFLAGS", "PLEX", "PRESENTATION", "STRANS", "PROPVALUE"}

\* Tags whose data is a byte string.
StringTags == {"SNAME", "STRING"}

Tags == StartTags \cup SingleTags \cup WholeTags \cup StringTags
          \cup {"COLROW", "XY", "ENDEL", "HEADER"}

\* ------------------------------------------------------------------ records
\* The data lengths the record source may deliver for a tag.
SizesOf(tag) ==
  IF tag = "XY" THEN 0..MaxPoints
  ELSE IF tag \in SingleTags THEN 0..MaxSize
  ELSE IF tag = "COLROW" THEN 1..(MaxSize + 1)
  ELSE IF tag \in StringTags THEN {2}
  ELSE IF tag \in WholeTags THEN {1}
  ELSE {0}

\* The payload of the k-th record of a stream of family seed: n items, all
\* different inside one stream.  A coordinate record carries n points.
DataOf(tag, n, k, seed) ==
  IF tag = "XY" THEN [i \in 1..n |-> <<seed + k, i>>]
  ELSE [i \in 1..n |-> seed + 2 * k + i - 1]

RecordData(tag, n, k, seed) == [tag |-> tag, data |-> DataOf(tag, n, k, seed)]

\* Every record the source can yield as its k-th record.
RecordsAt(k, seed) ==
  UNION {{RecordData(t, n, k, seed) : n \in SizesOf(t)} : t \in Tags}

\* rec.check_tag(tag), rec.check_size(n), rec.points
check_tag(r, tag) == r.tag = tag
check_size(r, n) == Len(r.data) = n
points(r) == r.data

\* ------------------------------------------------------------------ values
\* An optional attribute is None or holds one value.
None == <<>>
Some(v) == <<v>>

\* ------------------------------------------------------------------ elements
\* The attribute values set by the __init__ chain of each class.
InitElement(class) ==
  CASE class = "BoundaryElement" ->
         [properties |-> <<>>, layer |-> 0, data_type |-> 0, points |-> <<>>]
    [] class = "PathElement" ->
         [properties |-> <<>>, layer |-> 0, data_type |-> 0,
          path_type |-> None, width |-> None, bgn_extn |-> None,
          end_extn |-> None, points |-> <<>>]
    [] class = "SRefElement" ->
         [properties |-> <<>>, struct_name |-> <<>>, strans |-> None,
          mag |-> None, angle |-> None, points |-> <<>>]
    [] class = "ARefElement" ->
         [properties |-> <<>>, struct_name |-> <<>>, strans |-> None,
          mag |-> None, angle |-> None, points |-> <<>>,
          cols |-> 1, rows |-> 1]
    [] class = "TextElement" ->
         [properties |-> <<>>, layer |-> 0, text_type |-> 0,
          presentation |-> None, path_type |-> None, width |-> None,
          strans |-> None, mag |-> None, angle |-> None,
          points |-> <<>>, string |-> <<>>]
    [] class = "NodeElement" ->
         [properties |-> <<>>, layer |-> 0, node_type |-> 0, points |-> <<>>]
    [] class = "BoxElement" ->
         [properties |-> <<>>, layer |-> 0, box_type |-> 0, points |-> <<>>]

\* ElementBase._tag_to_class_map as the module sets it.
TagToClassMap ==
  [t \in StartTags |->
     CASE t = "BOUNDARY" -> "BoundaryElement"
       [] t = "PATH" -> "PathElement"
       [] t = "SREF" -> "SRefElement"
       [] t = "AREF" -> "ARefElement"
       [] t = "TEXT" -> "TextElement"
       [] t = "NODE" -> "NodeElement"
       [] t = "BOX" -> "BoxElement"]

\* ------------------------------------------------------------------ state
VARIABLES
  seed,                \* payload family of the stream behind recs
  lastrec,             \* load's argument: the first record of the element
  tag_to_class_map,    \* ElementBase._tag_to_class_map
  element_class,       \* load's local; "none" before the lookup
  new_element,         \* the element under construction
  rec,                 \* the local rec of the running method
  pulled,              \* the records next(recs) has yielded so far, in order
  pc,                  \* the line of the statement that runs next
  err,                 \* "none", or the kind of the exception that was raised
  result,              \* <<>>, or <<e>> once load has returned e
  calls,               \* TwoLoads: the frame of each of the two calls of load
  heap                 \* TwoLoads: the element objects constructed so far

vars == <<seed, lastrec, tag_to_class_map, element_class, new_element, rec,
          pulled, pc, err, result, calls, heap>>

\* Outcome of the code between two next(recs) calls.
Ok(at, el) == [pc |-> at, el |-> el, err |-> "none"]
Raise(at, el, kind) == [pc |-> at, el |-> el, err |-> kind]


\* ------------------------------------------------------------------ load
\* A class object is truthy: the test `if not element_class` of load.
Falsy(class) == class = "None"

\* LoadDispatch with the two reference classes exchanged in the lookup.
LoadDispatch_SwapRefs(map, first) ==
  LET tag == CASE first.tag = "SREF" -> "AREF"
               [] first.tag = "AREF" -> "SREF"
               [] OTHER -> first.tag IN
  IF tag \notin DOMAIN map
    THEN [pc |-> "load_48", class |-> "none", err |-> "KeyError"]
  ELSE [pc |-> "base_58", class |-> map[tag], err |-> "none"]

\* ElementBase.load up to the call of read_element: the registry lookup
\* map[lastrec.tag] raises KeyError for a tag that is no key of the dict.
LoadDispatch(map, first) ==
  IF first.tag \notin DOMAIN map
    THEN [pc |-> "load_48", class |-> "none", err |-> "KeyError"]
  ELSE IF Falsy(map[first.tag])
    THEN [pc |-> "load_50", class |-> map[first.tag], err |-> "UnexpectedTag"]
  ELSE [pc |-> "base_58", class |-> map[first.tag], err |-> "none"]

\* ------------------------------------------------------------------ prefix
\* _ignore_record(recs, lastrec, tag) pulls the next record exactly when
\* lastrec carries tag.
ignore_record(r, tag) == r.tag = tag

\* Where ElementBase._read_start returns to: its caller's next statement.
BaseReadStartReturn(class) ==
  IF class \in {"SRefElement", "ARefElement"} THEN "sref_238" ELSE "layer_101"

\* ElementBase._read_start that passes over ELFLAGS and PLEX records in any
\* order and number.
BaseReadStart_SkipAll(stage, class, el, r) ==
  IF r.tag \in {"ELFLAGS", "PLEX"} THEN Ok("base_58", el)
  ELSE Ok(BaseReadStartReturn(class), el)

\* ElementBase._read_start after a pull.  stage 1: the record of line 58 is
\* tested for ELFLAGS; stage 2: the record that followed ELFLAGS is tested for
\* PLEX; stage 3: the record that followed PLEX is returned.
BaseReadStart(stage, class, el, r) ==
  IF stage = 1 /\ ignore_record(r, "ELFLAGS") THEN Ok("base_58_elflags", el)
  ELSE IF stage <= 2 /\ ignore_record(r, "PLEX") THEN Ok("base_59_plex", el)
  ELSE Ok(BaseReadStartReturn(class), el)

\* Where ElementWithLayer._read_start returns to.
LayerReadStartReturn(class) ==
  CASE class \in {"BoundaryElement", "PathElement"} -> "datatype_120"
    [] class = "TextElement" -> "text_351"
    [] class = "NodeElement" -> "node_465"
    [] class = "BoxElement" -> "box_500"

\* LayerReadStart with the assignment made before the size check.
LayerReadStart_AssignFirst(class, el, r) ==
  IF ~check_tag(r, "LAYER") THEN Raise("layer_101", el, "UnexpectedTag")
  ELSE LET e == IF Len(r.data) > 0 THEN [el EXCEPT !.layer = r.data[1]] ELSE el IN
       IF ~check_size(r, 1) THEN Raise("layer_101", e, "SizeMismatch")
       ELSE Ok(LayerReadStartReturn(class), e)

\* ElementWithLayer._read_start, lines 101-103, on the record the prefix returned.
LayerReadStart(class, el, r) ==
  IF ~check_tag(r, "LAYER") THEN Raise("layer_101", el, "UnexpectedTag")
  ELSE IF ~check_size(r, 1) THEN Raise("layer_101", el, "SizeMismatch")
  ELSE Ok(LayerReadStartReturn(class), [el EXCEPT !.layer = r.data[1]])

\* ElementWithLayerAndDataType._read_start, lines 120-123.
DataTypeReadStart(class, el, r) ==
  IF ~check_tag(r, "DATATYPE") THEN Raise("datatype_120", el, "UnexpectedTag")
  ELSE IF ~check_size(r, 1) THEN Raise("datatype_120", el, "SizeMismatch")
  ELSE Ok(IF class = "BoundaryElement" THEN "boundary_141" ELSE "path_171",
          [el EXCEPT !.data_type = r.data[1]])

\* ------------------------------------------------------------------ trailer
\* next(rec) of line 69 is applied to the record, which is no iterator.
NextOfRecord(r) == "TypeError"

\* ReadRest that leaves the loop on any record that is no property key.
ReadRest_BreakOnOther(el, r) ==
  IF r.tag = "PROPATTR" THEN
    IF ~check_size(r, 1) THEN Raise("rest_65", el, "SizeMismatch")
    ELSE Raise("rest_65", el, NextOfRecord(r))
  ELSE Ok("done", el)

\* ReadRest that takes a bare property-value record for a finished pair.
ReadRest_AcceptBareValue(el, r) ==
  IF r.tag = "PROPATTR" THEN
    IF ~check_size(r, 1) THEN Raise("rest_65", el, "SizeMismatch")
    ELSE Raise("rest_65", el, NextOfRecord(r))
  ELSE IF r.tag = "ENDEL" THEN Ok("done", el)
  ELSE IF r.tag = "PROPVALUE" THEN Ok("rest_65", el)
  ELSE Raise("rest_65", el, "UnexpectedTag")

\* ReadRest that passes over a record that is neither a property key nor the
\* end marker, and goes on with the loop.
ReadRest_SkipOther(el, r) ==
  IF r.tag = "PROPATTR" THEN
    IF ~check_size(r, 1) THEN Raise("rest_65", el, "SizeMismatch")
    ELSE Raise("rest_65", el, NextOfRecord(r))
  ELSE IF r.tag = "ENDEL" THEN Ok("done", el)
  ELSE Ok("rest_65", el)

\* ElementBase._read_rest, one turn of its loop, on the record of line 65.
ReadRest(el, r) ==
  IF r.tag = "PROPATTR" THEN
    IF ~check_size(r, 1) THEN Raise("rest_65", el, "SizeMismatch")
    ELSE Raise("rest_65", el, NextOfRecord(r))
  ELSE IF r.tag = "ENDEL" THEN Ok("done", el)
  ELSE Raise("rest_65", el, "UnexpectedTag")

\* ------------------------------------------------------------------ Boundary
\* BoundaryElement.read_element, lines 141-146.
BoundaryReadElement(el, r) ==
  IF ~check_tag(r, "XY") THEN Raise("boundary_141", el, "UnexpectedTag")
  ELSE LET e == [el EXCEPT !.points = points(r)] IN
       IF Len(e.points) < 4 THEN Raise("boundary_141", e, "PointCountViolation")
       ELSE Ok("rest_65", e)

\* ------------------------------------------------------------------ Path
\* PathElement.read_element that looks for each optional record by its tag,
\* whatever came before it.
PathReadElement_AnyOrder(stage, at, el, r) ==
  IF r.tag = "PATHTYPE" THEN
    IF ~check_size(r, 1) THEN Raise(at, el, "SizeMismatch")
    ELSE Ok("path_175", [el EXCEPT !.path_type = Some(r.data[1])])
  ELSE IF r.tag = "WIDTH" THEN
    IF ~check_size(r, 1) THEN Raise(at, el, "SizeMismatch")
    ELSE Ok("path_179", [el EXCEPT !.width = Some(r.data[1])])
  ELSE IF r.tag = "BGNEXTN" THEN
    IF ~check_size(r, 1) THEN Raise(at, el, "SizeMismatch")
    ELSE Ok("path_183", [el EXCEPT !.bgn_extn = Some(r.data[1])])
  ELSE IF r.tag = "ENDEXTN" THEN
    IF ~check_size(r, 1) THEN Raise(at, el, "SizeMismatch")
    ELSE Ok("path_187", [el EXCEPT !.end_extn = Some(r.data[1])])
  ELSE IF ~check_tag(r, "XY") THEN Raise(at, el, "UnexpectedTag")
  ELSE LET e == [el EXCEPT !.points = points(r)] IN
       IF Len(e.points) < 2 THEN Raise(at, e, "PointCountViolation")
       ELSE Ok("rest_65", e)

\* PathElement.read_element after a pull at line `at`.  stage is the first of
\* the tests that the pulled record still meets: 1 PATHTYPE, 2 WIDTH,
\* 3 BGNEXTN, 4 ENDEXTN, 5 the XY check.
PathReadElement(stage, at, el, r) ==
  IF stage <= 1 /\ r.tag = "PATHTYPE" THEN
    IF ~check_size(r, 1) THEN Raise(at, el, "SizeMismatch")
    ELSE Ok("path_175", [el EXCEPT !.path_type = Some(r.data[1])])
  ELSE IF stage <= 2 /\ r.tag = "WIDTH" THEN
    IF ~check_size(r, 1) THEN Raise(at, el, "SizeMismatch")
    ELSE Ok("path_179", [el EXCEPT !.width = Some(r.data[1])])
  ELSE IF stage <= 3 /\ r.tag = "BGNEXTN" THEN
    IF ~check_size(r, 1) THEN Raise(at, el, "SizeMismatch")
    ELSE Ok("path_183", [el EXCEPT !.bgn_extn = Some(r.data[1])])
  ELSE IF stage <= 4 /\ r.tag = "ENDEXTN" THEN
    IF ~check_size(r, 1) THEN Raise(at, el, "SizeMismatch")
    ELSE Ok("path_187", [el EXCEPT !.end_extn = Some(r.data[1])])
  ELSE IF ~check_tag(r, "XY") THEN Raise(at, el, "UnexpectedTag")
  ELSE LET e == [el EXCEPT !.points = points(r)] IN
       IF Len(e.points) < 2 THEN Raise(at, e, "PointCountViolation")
       ELSE Ok("rest_65", e)

\* ------------------------------------------------------------------ SRef, ARef
\* SRefElement._read_start whose caller pulls a fresh record instead of
\* checking the one returned: the column/row check of an array is passed over.
SRefReadStartReturn_Skip(class) ==
  IF class = "ARefElement" THEN "aref_313" ELSE "sref_265"

\* Where SRefElement._read_start returns to.
SRefReadStartReturn(class) ==
  IF class = "ARefElement" THEN "aref_309" ELSE "sref_265"

\* SRefElement._read_start, lines 238-239, on the record the prefix returned.
SRefReadName(el, r) ==
  IF ~check_tag(r, "SNAME") THEN Raise("sref_238", el, "UnexpectedTag")
  ELSE Ok("sref_240", [el EXCEPT !.struct_name = r.data])

\* SRefElement._read_start that tests for MAG and ANGLE whether or not a
\* STRANS record came first.
SRefReadStart_NoStransNeeded(stage, at, class, el, r) ==
  IF stage = 1 /\ r.tag = "STRANS" THEN
    Ok("sref_243", [el EXCEPT !.strans = Some(r.data)])
  ELSE IF stage <= 2 /\ r.tag = "MAG" THEN
    IF ~check_size(r, 1) THEN Raise(at, el, "SizeMismatch")
    ELSE Ok("sref_247", [el EXCEPT !.mag = Some(r.data[1])])
  ELSE IF stage <= 3 /\ r.tag = "ANGLE" THEN
    IF ~check_size(r, 1) THEN Raise(at, el, "SizeMismatch")
    ELSE Ok("sref_251", [el EXCEPT !.angle = Some(r.data[1])])
  ELSE Ok(SRefReadStartReturn(class), el)

\* SRefElement._read_start that tests for ANGLE only after a MAG record.
SRefReadStart_AngleNeedsMag(stage, at, class, el, r) ==
  IF stage = 1 /\ r.tag = "STRANS" THEN
    Ok("sref_243", [el EXCEPT !.strans = Some(r.data)])
  ELSE IF stage = 2 /\ r.tag = "MAG" THEN
    IF ~check_size(r, 1) THEN Raise(at, el, "SizeMismatch")
    ELSE Ok("sref_247", [el EXCEPT !.mag = Some(r.data[1])])
  ELSE IF stage = 3 /\ r.tag = "ANGLE" THEN
    IF ~check_size(r, 1) THEN Raise(at, el, "SizeMismatch")
    ELSE Ok("sref_251", [el EXCEPT !.angle = Some(r.data[1])])
  ELSE Ok(SRefReadStartReturn(class), el)

\* SRefElement._read_start after a pull at line `at`.  stage 1: the record of
\* line 240 is tested for STRANS; stage 2: the record after STRANS for MAG and
\* ANGLE; stage 3: the record after MAG for ANGLE; stage 4: it is returned.
SRefReadStart(stage, at, class, el, r) ==
  IF stage = 1 /\ r.tag = "STRANS" THEN
    Ok("sref_243", [el EXCEPT !.strans = Some(r.data)])
  ELSE IF stage = 2 /\ r.tag = "MAG" THEN
    IF ~check_size(r, 1) THEN Raise(at, el, "SizeMismatch")
    ELSE Ok("sref_247", [el EXCEPT !.mag = Some(r.data[1])])
  ELSE IF stage \in {2, 3} /\ r.tag = "ANGLE" THEN
    IF ~check_size(r, 1) THEN Raise(at, el, "SizeMismatch")
    ELSE Ok("sref_251", [el EXCEPT !.angle = Some(r.data[1])])
  ELSE Ok(SRefReadStartReturn(class), el)

\* SRefElement.read_element, lines 265-269, on the record _read_start returned.
SRefReadElement(el, r) ==
  IF ~check_tag(r, "XY") THEN Raise("sref_265", el, "UnexpectedTag")
  ELSE LET e == [el EXCEPT !.points = points(r)] IN
       IF Len(e.points) # 1 THEN Raise("sref_265", e, "PointCountViolation")
       ELSE Ok("rest_65", e)

\* ARefReadColRow with the two items of the record unpacked the wrong way round.
ARefReadColRow_Swapped(el, r) ==
  IF ~check_tag(r, "COLROW") THEN Raise("aref_309", el, "UnexpectedTag")
  ELSE IF ~check_size(r, 2) THEN Raise("aref_309", el, "SizeMismatch")
  ELSE Ok("aref_313", [el EXCEPT !.cols = r.data[2], !.rows = r.data[1]])

\* ARefElement.read_element, lines 309-311, on the record _read_start returned.
ARefReadColRow(el, r) ==
  IF ~check_tag(r, "COLROW") THEN Raise("aref_309", el, "UnexpectedTag")
  ELSE IF ~check_size(r, 2) THEN Raise("aref_309", el, "SizeMismatch")
  ELSE Ok("aref_313", [el EXCEPT !.cols = r.data[1], !.rows = r.data[2]])

\* ARefElement.read_element, lines 313-318.
ARefReadElement(el, r) ==
  IF ~check_tag(r, "XY") THEN Raise("aref_313", el, "UnexpectedTag")
  ELSE LET e == [el EXCEPT !.points = points(r)] IN
       IF Len(e.points) # 3 THEN Raise("aref_313", e, "PointCountViolation")
       ELSE Ok("rest_65", e)

\* ------------------------------------------------------------------ Text
\* TextElement.read_element, lines 351-354.
TextReadType(el, r) ==
  IF ~check_tag(r, "TEXTTYPE") THEN Raise("text_351", el, "UnexpectedTag")
  ELSE IF ~check_size(r, 1) THEN Raise("text_351", el, "SizeMismatch")
  ELSE Ok("text_356", [el EXCEPT !.text_type = r.data[1]])

\* TextElement.read_element that still tests for WIDTH after a WIDTH record.
TextReadElement_RepeatWidth(stage, at, el, r) ==
  IF stage <= 1 /\ r.tag = "PRESENTATION" THEN
    Ok("text_359", [el EXCEPT !.presentation = Some(r.data)])
  ELSE IF stage <= 2 /\ r.tag = "PATHTYPE" THEN
    IF ~check_size(r, 1) THEN Raise(at, el, "SizeMismatch")
    ELSE Ok("text_364", [el EXCEPT !.path_type = Some(r.data[1])])
  ELSE IF stage <= 4 /\ r.tag = "WIDTH" THEN
    IF ~check_size(r, 1) THEN Raise(at, el, "SizeMismatch")
    ELSE Ok("text_369", [el EXCEPT !.width = Some(r.data[1])])
  ELSE IF stage <= 4 /\ r.tag = "STRANS" THEN
    Ok("text_374", [el EXCEPT !.strans = Some(r.data)])
  ELSE IF stage = 5 /\ r.tag = "MAG" THEN
    IF ~check_size(r, 1) THEN Raise(at, el, "SizeMismatch")
    ELSE Ok("text_378", [el EXCEPT !.mag = Some(r.data[1])])
  ELSE IF stage \in {5, 6} /\ r.tag = "ANGLE" THEN
    IF ~check_size(r, 1) THEN Raise(at, el, "SizeMismatch")
    ELSE Ok("text_382", [el EXCEPT !.angle = Some(r.data[1])])
  ELSE IF ~check_tag(r, "XY") THEN Raise(at, el, "UnexpectedTag")
  ELSE LET e == [el EXCEPT !.points = points(r)] IN
       IF Len(e.points) # 1 THEN Raise(at, e, "PointCountViolation")
       ELSE Ok("text_389", e)

\* TextElement.read_element that reads on to the string record without the
\* point-count check of lines 386-387.
TextReadElement_LateCount(stage, at, el, r) ==
  IF stage <= 1 /\ r.tag = "PRESENTATION" THEN
    Ok("text_359", [el EXCEPT !.presentation = Some(r.data)])
  ELSE IF stage <= 2 /\ r.tag = "PATHTYPE" THEN
    IF ~check_size(r, 1) THEN Raise(at, el, "SizeMismatch")
    ELSE Ok("text_364", [el EXCEPT !.path_type = Some(r.data[1])])
  ELSE IF stage <= 3 /\ r.tag = "WIDTH" THEN
    IF ~check_size(r, 1) THEN Raise(at, el, "SizeMismatch")
    ELSE Ok("text_369", [el EXCEPT !.width = Some(r.data[1])])
  ELSE IF stage <= 4 /\ r.tag = "STRANS" THEN
    Ok("text_374", [el EXCEPT !.strans = Some(r.data)])
  ELSE IF stage = 5 /\ r.tag = "MAG" THEN
    IF ~check_size(r, 1) THEN Raise(at, el, "SizeMismatch")
    ELSE Ok("text_378", [el EXCEPT !.mag = Some(r.data[1])])
  ELSE IF stage \in {5, 6} /\ r.tag = "ANGLE" THEN
    IF ~check_size(r, 1) THEN Raise(at, el, "SizeMismatch")
    ELSE Ok("text_382", [el EXCEPT !.angle = Some(r.data[1])])
  ELSE IF ~check_tag(r, "XY") THEN Raise(at, el, "UnexpectedTag")
  ELSE LET e == [el EXCEPT !.points = points(r)] IN
       Ok("text_389", e)

\* TextElement.read_element, lines 356-387, after a pull at line `at`.  stage
\* is the first of the tests that the pulled record still meets:
\* 1 PRESENTATION, 2 PATHTYPE, 3 WIDTH, 4 STRANS, 5 MAG and 6 ANGLE (both only
\* inside the STRANS branch), 7 the XY check.
TextReadElement(stage, at, el, r) ==
  IF stage <= 1 /\ r.tag = "PRESENTATION" THEN
    Ok("text_359", [el EXCEPT !.presentation = Some(r.data)])
  ELSE IF stage <= 2 /\ r.tag = "PATHTYPE" THEN
    IF ~check_size(r, 1) THEN Raise(at, el, "SizeMismatch")
    ELSE Ok("text_364", [el EXCEPT !.path_type = Some(r.data[1])])
  ELSE IF stage <= 3 /\ r.tag = "WIDTH" THEN
    IF ~check_size(r, 1) THEN Raise(at, el, "SizeMismatch")
    ELSE Ok("text_369", [el EXCEPT !.width = Some(r.data[1])])
  ELSE IF stage <= 4 /\ r.tag = "STRANS" THEN
    Ok("text_374", [el EXCEPT !.strans = Some(r.data)])
  ELSE IF stage = 5 /\ r.tag = "MAG" THEN
    IF ~check_size(r, 1) THEN Raise(at, el, "SizeMismatch")
    ELSE Ok("text_378", [el EXCEPT !.mag = Some(r.data[1])])
  ELSE IF stage \in {5, 6} /\ r.tag = "ANGLE" THEN
    IF ~check_size(r, 1) THEN Raise(at, el, "SizeMismatch")
    ELSE Ok("text_382", [el EXCEPT !.angle = Some(r.data[1])])
  ELSE IF ~check_tag(r, "XY") THEN Raise(at, el, "UnexpectedTag")
  ELSE LET e == [el EXCEPT !.points = points(r)] IN
       IF Len(e.points) # 1 THEN Raise(at, e, "PointCountViolation")
       ELSE Ok("text_389", e)

\* TextElement.read_element that stores whatever record follows the
\* coordinates as the string, without the tag check of line 390.
TextReadString_NoCheck(el, r) ==
  Ok("rest_65", [el EXCEPT !.string = r.data])

\* TextElement.read_element, lines 389-393.
TextReadString(el, r) ==
  IF ~check_tag(r, "STRING") THEN Raise("text_389", el, "UnexpectedTag")
  ELSE Ok("rest_65", [el EXCEPT !.string = r.data])

\* ------------------------------------------------------------------ Node
\* NodeElement.read_element, lines 465-468.
NodeReadType(el, r) ==
  IF ~check_tag(r, "NODETYPE") THEN Raise("node_465", el, "UnexpectedTag")
  ELSE IF ~check_size(r, 1) THEN Raise("node_465", el, "SizeMismatch")
  ELSE Ok("node_470", [el EXCEPT !.node_type = r.data[1]])

\* NodeElement.read_element, lines 470-476.
NodeReadElement(el, r) ==
  IF ~check_tag(r, "XY") THEN Raise("node_470", el, "UnexpectedTag")
  ELSE LET e == [el EXCEPT !.points = points(r)] IN
       IF Len(e.points) < 1 THEN Raise("node_470", e, "PointCountViolation")
       ELSE Ok("rest_65", e)

\* ------------------------------------------------------------------ Box
\* BoxElement.read_element, lines 500-503.
BoxReadType(el, r) ==
  IF ~check_tag(r, "BOXTYPE") THEN Raise("box_500", el, "UnexpectedTag")
  ELSE IF ~check_size(r, 1) THEN Raise("box_500", el, "SizeMismatch")
  ELSE Ok("box_505", [el EXCEPT !.box_type = r.data[1]])

\* BoxReadElement that rejects only a point list longer than five.
BoxReadElement_AtMost5(el, r) ==
  IF ~check_tag(r, "XY") THEN Raise("box_505", el, "UnexpectedTag")
  ELSE LET e == [el EXCEPT !.points = points(r)] IN
       IF Len(e.points) > 5 THEN Raise("box_505", e, "PointCountViolation")
       ELSE Ok("rest_65", e)

\* BoxElement.read_element, lines 505-511.
BoxReadElement(el, r) ==
  IF ~check_tag(r, "XY") THEN Raise("box_505", el, "UnexpectedTag")
  ELSE LET e == [el EXCEPT !.points = points(r)] IN
       IF Len(e.points) # 5 THEN Raise("box_505", e, "PointCountViolation")
       ELSE Ok("rest_65", e)

\* ------------------------------------------------------------------ steps
\* The running call has raised nothing and has not returned.
Running == err = "none" /\ result = <<>>

\* The statements after a next(recs) that yielded r ran with outcome out.
\* load returns new_element when _read_rest, and so read_element, returns.
Yield(r, out) ==
  /\ rec' = r
  /\ pulled' = Append(pulled, r)
  /\ pc' = out.pc
  /\ new_element' = out.el
  /\ err' = out.err
  /\ result' = IF out.pc = "done" THEN <<out.el>> ELSE <<>>
  /\ UNCHANGED <<seed, lastrec, tag_to_class_map, element_class, calls, heap>>

\* next(recs) on an exhausted generator: the source's error reaches the caller.
Exhausted ==
  /\ err' = "PrematureEndOfStream"
  /\ UNCHANGED <<seed, lastrec, tag_to_class_map, element_class, new_element,
                 rec, pulled, pc, result, calls, heap>>

\* The statements at pc ran on the record rec holds, with outcome out.
Continue(out) ==
  /\ pc' = out.pc
  /\ new_element' = out.el
  /\ err' = out.err
  /\ UNCHANGED <<seed, lastrec, tag_to_class_map, element_class, rec, pulled,
                 result, calls, heap>>

\* The set next(recs) draws from.
NextRecs == RecordsAt(Len(pulled) + 1, seed)

\* ------------------------------------------------------------------ actions
\* ElementBase.load, lines 48-52.
Load ==
  /\ Running /\ pc = "load_48"
  /\ LET out == LoadDispatch(tag_to_class_map, lastrec) IN
       /\ pc' = out.pc
       /\ err' = out.err
       /\ element_class' = out.class
       /\ new_element' = IF out.err = "none" THEN InitElement(out.class)
                         ELSE new_element
  /\ UNCHANGED <<seed, lastrec, tag_to_class_map, rec, pulled, result, calls,
                 heap>>

\* ElementBase._read_start, lines 58-60.
ElementBase_read_start ==
  /\ Running /\ pc \in {"base_58", "base_58_elflags", "base_59_plex"}
  /\ LET stage == CASE pc = "base_58" -> 1
                    [] pc = "base_58_elflags" -> 2
                    [] pc = "base_59_plex" -> 3 IN
       \/ \E r \in NextRecs :
            Yield(r, BaseReadStart(stage, element_class, new_element, r))
       \/ Exhausted

\* ElementWithLayer._read_start, lines 101-103.
ElementWithLayer_read_start ==
  /\ Running /\ pc = "layer_101"
  /\ Continue(LayerReadStart(element_class, new_element, rec))

\* ElementWithLayerAndDataType._read_start, lines 120-123.
ElementWithLayerAndDataType_read_start ==
  /\ Running /\ pc = "datatype_120"
  /\ \/ \E r \in NextRecs : Yield(r, DataTypeReadStart(element_class, new_element, r))
     \/ Exhausted

\* BoundaryElement.read_element, lines 141-146.
BoundaryElement_read_element ==
  /\ Running /\ pc = "boundary_141"
  /\ \/ \E r \in NextRecs : Yield(r, BoundaryReadElement(new_element, r))
     \/ Exhausted

\* PathElement.read_element, lines 171-192.
PathElement_read_element ==
  /\ Running /\ pc \in {"path_171", "path_175", "path_179", "path_183", "path_187"}
  /\ LET stage == CASE pc = "path_171" -> 1
                    [] pc = "path_175" -> 2
                    [] pc = "path_179" -> 3
                    [] pc = "path_183" -> 4
                    [] pc = "path_187" -> 5 IN
       \/ \E r \in NextRecs : Yield(r, PathReadElement(stage, pc, new_element, r))
       \/ Exhausted

\* SRefElement._read_start, lines 238-252.
SRefElement_read_start ==
  /\ Running
  /\ \/ /\ pc = "sref_238"
        /\ Continue(SRefReadName(new_element, rec))
     \/ /\ pc \in {"sref_240", "sref_243", "sref_247", "sref_251"}
        /\ LET stage == CASE pc = "sref_240" -> 1
                          [] pc = "sref_243" -> 2
                          [] pc = "sref_247" -> 3
                          [] pc = "sref_251" -> 4 IN
             \/ \E r \in NextRecs :
                  Yield(r, SRefReadStart(stage, pc, element_class, new_element, r))
             \/ Exhausted

\* SRefElement.read_element, lines 265-269.
SRefElement_read_element ==
  /\ Running /\ pc = "sref_265"
  /\ Continue(SRefReadElement(new_element, rec))

\* ARefElement.read_element, lines 309-318.
ARefElement_read_element ==
  /\ Running
  /\ \/ /\ pc = "aref_309"
        /\ Continue(ARefReadColRow(new_element, rec))
     \/ /\ pc = "aref_313"
        /\ \/ \E r \in NextRecs : Yield(r, ARefReadElement(new_element, r))
           \/ Exhausted

\* TextElement.read_element, lines 351-393.
TextElement_read_element ==
  /\ Running
  /\ \/ /\ pc = "text_351"
        /\ \/ \E r \in NextRecs : Yield(r, TextReadType(new_element, r))
           \/ Exhausted
     \/ /\ pc \in {"text_356", "text_359", "text_364", "text_369", "text_374",
                   "text_378", "text_382"}
        /\ LET stage == CASE pc = "text_356" -> 1
                          [] pc = "text_359" -> 2
                          [] pc = "text_364" -> 3
                          [] pc = "text_369" -> 4
                          [] pc = "text_374" -> 5
                          [] pc = "text_378" -> 6
                          [] pc = "text_382" -> 7 IN
             \/ \E r \in NextRecs : Yield(r, TextReadElement(stage, pc, new_element, r))
             \/ Exhausted
     \/ /\ pc = "text_389"
        /\ \/ \E r \in NextRecs : Yield(r, TextReadString(new_element, r))
           \/ Exhausted

\* NodeElement.read_element, lines 465-476.
NodeElement_read_element ==
  /\ Running
  /\ \/ /\ pc = "node_465"
        /\ \/ \E r \in NextRecs : Yield(r, NodeReadType(new_element, r))
           \/ Exhausted
     \/ /\ pc = "node_470"
        /\ \/ \E r \in NextRecs : Yield(r, NodeReadElement(new_element, r))
           \/ Exhausted

\* BoxElement.read_element, lines 500-511.
BoxElement_read_element ==
  /\ Running
  /\ \/ /\ pc = "box_500"
        /\ \/ \E r \in NextRecs : Yield(r, BoxReadType(new_element, r))
           \/ Exhausted
     \/ /\ pc = "box_505"
        /\ \/ \E r \in NextRecs : Yield(r, BoxReadElement(new_element, r))
           \/ Exhausted

\* ElementBase._read_rest, lines 64-75, and the return of load, line 53.
ElementBase_read_rest ==
  /\ Running /\ pc = "rest_65"
  /\ \/ \E r \in NextRecs : Yield(r, ReadRest(new_element, r))
     \/ Exhausted

\* ------------------------------------------------------------------ spec
\* load is called with any first record; nothing has been pulled from recs.
Init ==
  /\ seed \in 1..MaxSeed
  /\ lastrec \in RecordsAt(0, seed)
  /\ tag_to_class_map = TagToClassMap
  /\ element_class = "none"
  /\ new_element = <<>>
  /\ rec = lastrec
  /\ pulled = <<>>
  /\ pc = "load_48"
  /\ err = "none"
  /\ result = <<>>
  /\ calls = <<>>
  /\ heap = <<>>

Next ==
  \/ Load
  \/ ElementBase_read_start
  \/ ElementWithLayer_read_start
  \/ ElementWithLayerAndDataType_read_start
  \/ BoundaryElement_read_element
  \/ PathElement_read_element
  \/ SRefElement_read_start
  \/ SRefElement_read_element
  \/ ARefElement_read_element
  \/ TextElement_read_element
  \/ NodeElement_read_element
  \/ BoxElement_read_element
  \/ ElementBase_read_rest

Spec == Init /\ [][Next]_vars

\* ------------------------------------------------------------------ two calls
\* Two calls of ElementBase.load, each with its own first record and its own
\* record generator, run with their steps interleaved.  A frame holds the
\* argument and the locals of one call; new_element is a reference into heap.
Calls == {1, 2}

\* The records the two streams deliver: enough for a boundary and a structure
\* reference, with their optional and their wrong records.
TwoFirstTags == {"BOUNDARY", "SREF", "HEADER"}
TwoTags == {"LAYER", "DATATYPE", "SNAME", "STRANS", "XY", "ENDEL"}
TwoSizes(tag) ==
  IF tag = "XY" THEN {1, 4}
  ELSE IF tag = "ENDEL" THEN {0}
  ELSE IF tag \in StringTags THEN {2}
  ELSE {1}

\* Every record the stream of call d can yield as its k-th record.
TwoRecs(d, k) ==
  UNION {{RecordData(t, n, k, d) : n \in TwoSizes(t)} : t \in TwoTags}

\* The frame of a call of load(recs, first) that has not run a statement yet.
Frame(first) ==
  [lastrec |-> first, element_class |-> "none", new_element |-> 0, rec |-> first,
   pulled |-> <<>>, pc |-> "load_48", err |-> "none", result |-> <<>>]

\* element_class() that hands out the object of the call before it again.
NewElement_Shared(h) == IF h = <<>> THEN 1 ELSE Len(h)

\* new_element = element_class(), line 51: the constructor returns an object
\* that did not exist before.
NewElement(h) == Len(h) + 1

\* The attributes of object self are set to el: the assignments to self._x.
Store(h, self, el) ==
  IF self = Len(h) + 1 THEN Append(h, el) ELSE [h EXCEPT ![self] = el]

\* The statements that run after the next(recs) at line `at` yielded r.
PullOutcome(at, class, el, r) ==
  CASE at = "base_58" -> BaseReadStart(1, class, el, r)
    [] at = "base_58_elflags" -> BaseReadStart(2, class, el, r)
    [] at = "base_59_plex" -> BaseReadStart(3, class, el, r)
    [] at = "datatype_120" -> DataTypeReadStart(class, el, r)
    [] at = "boundary_141" -> BoundaryReadElement(el, r)
    [] at = "path_171" -> PathReadElement(1, at, el, r)
    [] at = "path_175" -> PathReadElement(2, at, el, r)
    [] at = "path_179" -> PathReadElement(3, at, el, r)
    [] at = "path_183" -> PathReadElement(4, at, el, r)
    [] at = "path_187" -> PathReadElement(5, at, el, r)
    [] at = "sref_240" -> SRefReadStart(1, at, class, el, r)
    [] at = "sref_243" -> SRefReadStart(2, at, class, el, r)
    [] at = "sref_247" -> SRefReadStart(3, at, class, el, r)
    [] at = "sref_251" -> SRefReadStart(4, at, class, el, r)
    [] at = "aref_313" -> ARefReadElement(el, r)
    [] at = "text_351" -> TextReadType(el, r)
    [] at = "text_356" -> TextReadElement(1, at, el, r)
    [] at = "text_359" -> TextReadElement(2, at, el, r)
    [] at = "text_364" -> TextReadElement(3, at, el, r)
    [] at = "text_369" -> TextReadElement(4, at, el, r)
    [] at = "text_374" -> TextReadElement(5, at, el, r)
    [] at = "text_378" -> TextReadElement(6, at, el, r)
    [] at = "text_382" -> TextReadElement(7, at, el, r)
    [] at = "text_389" -> TextReadString(el, r)
    [] at = "node_465" -> NodeReadType(el, r)
    [] at = "node_470" -> NodeReadElement(el, r)
    [] at = "box_500" -> BoxReadType(el, r)
    [] at = "box_505" -> BoxReadElement(el, r)
    [] at = "rest_65" -> ReadRest(el, r)

\* The lines at which a method checks the record it was handed.
CheckSites == {"layer_101", "sref_238", "sref_265", "aref_309"}

\* The statements that run at line `at` on the record r the caller returned.
CheckOutcome(at, class, el, r) ==
  CASE at = "layer_101" -> LayerReadStart(class, el, r)
    [] at = "sref_238" -> SRefReadName(el, r)
    [] at = "sref_265" -> SRefReadElement(el, r)
    [] at = "aref_309" -> ARefReadColRow(el, r)

\* The variables of the single call keep their values while two calls run.
SingleCallIdle ==
  UNCHANGED <<seed, lastrec, tag_to_class_map, element_class, new_element, rec,
              pulled, pc, err, result>>

\* Call d runs ElementBase.load, lines 48-52: the lookup and the constructor.
CallLoad(d) ==
  /\ calls[d].pc = "load_48" /\ calls[d].err = "none"
  /\ LET out == LoadDispatch(tag_to_class_map, calls[d].lastrec)
         self == NewElement(heap) IN
       IF out.err = "none" THEN
         /\ heap' = Store(heap, self, InitElement(out.class))
         /\ calls' = [calls EXCEPT ![d].pc = out.pc,
                                   ![d].element_class = out.class,
                                   ![d].new_element = self]
       ELSE
         /\ calls' = [calls EXCEPT ![d].err = out.err]
         /\ UNCHANGED heap
  /\ SingleCallIdle

\* Call d is at a next(recs).
AtPull(d) ==
  /\ calls[d].err = "none" /\ calls[d].result = <<>>
  /\ calls[d].pc \notin CheckSites \cup {"load_48", "done"}

\* Call d pulls a record and runs up to its next next(recs), or returns.
CallPull(d) ==
  /\ AtPull(d)
  /\ \E r \in TwoRecs(d, Len(calls[d].pulled) + 1) :
       LET c == calls[d]
           out == PullOutcome(c.pc, c.element_class, heap[c.new_element], r) IN
         /\ heap' = Store(heap, c.new_element, out.el)
         /\ calls' = [calls EXCEPT ![d] =
                        [c EXCEPT !.rec = r,
                                  !.pulled = Append(c.pulled, r),
                                  !.pc = out.pc,
                                  !.err = out.err,
                                  !.result = IF out.pc = "done"
                                             THEN <<c.new_element>> ELSE <<>>]]
  /\ SingleCallIdle

\* The generator of call d is exhausted at its next(recs).
CallExhausted(d) ==
  /\ AtPull(d)
  /\ calls' = [calls EXCEPT ![d].err = "PrematureEndOfStream"]
  /\ UNCHANGED heap
  /\ SingleCallIdle

\* Call d checks the record it was handed.
CallCheck(d) ==
  /\ calls[d].err = "none" /\ calls[d].pc \in CheckSites
  /\ LET c == calls[d]
         out == CheckOutcome(c.pc, c.element_class, heap[c.new_element], c.rec) IN
       /\ heap' = Store(heap, c.new_element, out.el)
       /\ calls' = [calls EXCEPT ![d].pc = out.pc, ![d].err = out.err]
  /\ SingleCallIdle

\* Two calls are about to start, each on the first record of its own stream;
\* no element has been constructed.
InitTwo ==
  /\ seed = 1
  /\ lastrec = RecordData("HEADER", 0, 0, seed)
  /\ tag_to_class_map = TagToClassMap
  /\ element_class = "none"
  /\ new_element = <<>>
  /\ rec = lastrec
  /\ pulled = <<>>
  /\ pc = "idle"
  /\ err = "none"
  /\ result = <<>>
  /\ calls \in [Calls -> {Frame(RecordData(t, 0, 0, 1)) : t \in TwoFirstTags}]
  /\ heap = <<>>

NextTwo ==
  \E d \in Calls : CallLoad(d) \/ CallPull(d) \/ CallExhausted(d) \/ CallCheck(d)

TwoLoads == InitTwo /\ [][NextTwo]_vars

\* ------------------------------------------------------------------ grammar
\* The record grammar of each variant as the specification states it, used to
\* say which streams a property is about.
Classes == {"BoundaryElement", "PathElement", "SRefElement", "ARefElement",
            "TextElement", "NodeElement", "BoxElement"}

IsPrefix(s, t) == Len(s) <= Len(t) /\ SubSeq(t, 1, Len(s)) = s
Last(s) == s[Len(s)]
Front(s) == SubSeq(s, 1, Len(s) - 1)
TagsOf(s) == [i \in 1..Len(s) |-> s[i].tag]

RECURSIVE Pick(_, _, _)
\* The members of order whose index is in S, in order, from index i on.
Pick(order, S, i) ==
  IF i > Len(order) THEN <<>>
  ELSE (IF i \in S THEN <<order[i]>> ELSE <<>>) \o Pick(order, S, i + 1)

SubSeqsOf(order) == {Pick(order, S, 1) : S \in SUBSET (1..Len(order))}

PrefixShapes == {<<>>, <<"ELFLAGS">>, <<"PLEX">>, <<"ELFLAGS", "PLEX">>}

Transforms == {<<>>, <<"STRANS">>, <<"STRANS", "MAG">>, <<"STRANS", "ANGLE">>,
               <<"STRANS", "MAG", "ANGLE">>}

\* The fixed relative order of the optional records of a variant.
OptionalOrder ==
  [c \in Classes |->
     CASE c = "PathElement" -> <<"PATHTYPE", "WIDTH", "BGNEXTN", "ENDEXTN">>
       [] c \in {"SRefElement", "ARefElement"} -> <<"STRANS", "MAG", "ANGLE">>
       [] c = "TextElement" ->
            <<"PRESENTATION", "PATHTYPE", "WIDTH", "STRANS", "MAG", "ANGLE">>
       [] OTHER -> <<>>]

\* The admissible sequences of optional records of a variant.
OptChains ==
  [c \in Classes |->
     CASE c = "PathElement" -> SubSeqsOf(OptionalOrder[c])
       [] c \in {"SRefElement", "ARefElement"} -> Transforms
       [] c = "TextElement" ->
            {a \o x : a \in SubSeqsOf(<<"PRESENTATION", "PATHTYPE", "WIDTH">>),
                      x \in Transforms}
       [] OTHER -> {<<>>}]

\* The mandatory records before the optional ones, between them and the
\* coordinate record, and after the coordinate record.
HeadOf ==
  [c \in Classes |->
     CASE c \in {"BoundaryElement", "PathElement"} -> <<"LAYER", "DATATYPE">>
       [] c \in {"SRefElement", "ARefElement"} -> <<"SNAME">>
       [] c = "TextElement" -> <<"LAYER", "TEXTTYPE">>
       [] c = "NodeElement" -> <<"LAYER", "NODETYPE">>
       [] c = "BoxElement" -> <<"LAYER", "BOXTYPE">>]

PreXY == [c \in Classes |-> IF c = "ARefElement" THEN <<"COLROW">> ELSE <<>>]
AfterXY == [c \in Classes |-> IF c = "TextElement" THEN <<"STRING">> ELSE <<>>]

\* What may precede the coordinate record, without and with the common prefix.
BeforeXY == [c \in Classes |-> {HeadOf[c] \o o \o PreXY[c] : o \in OptChains[c]}]
FullBeforeXY == [c \in Classes |-> {p \o b : p \in PrefixShapes, b \in BeforeXY[c]}]

\* The kind-specific part of a stream: everything before the trailer.
Bodies == [c \in Classes |-> {b \o <<"XY">> \o AfterXY[c] : b \in BeforeXY[c]}]
FullBodies == [c \in Classes |-> {p \o b : p \in PrefixShapes, b \in Bodies[c]}]

\* The kind-specific part with the mandatory records alone.
Mandatory == [c \in Classes |-> HeadOf[c] \o PreXY[c] \o <<"XY">> \o AfterXY[c]]

\* The point-count rule of a variant.
CountRule(class, n) ==
  CASE class = "BoundaryElement" -> n >= 4
    [] class = "PathElement" -> n >= 2
    [] class = "SRefElement" -> n = 1
    [] class = "ARefElement" -> n = 3
    [] class = "TextElement" -> n = 1
    [] class = "NodeElement" -> n >= 1
    [] class = "BoxElement" -> n = 5

\* The records of fixed arity, and the arity each must have.
FixedArityTags == (SingleTags \ {"PROPATTR"}) \cup {"COLROW"}
Arity(tag) == IF tag = "COLROW" THEN 2 ELSE 1

\* r carries what the variant requires of a record of its tag.
WellFormed(class, r) ==
  /\ r.tag \in FixedArityTags \cup {"PROPATTR"} => Len(r.data) = Arity(r.tag)
  /\ r.tag = "XY" => CountRule(class, Len(r.data))

AllWellFormed(class, s) == \A i \in 1..Len(s) : WellFormed(class, s[i])

\* The attribute of el that a record of r's tag is decoded into holds what r
\* carries.
Carries(el, r) ==
  CASE r.tag = "LAYER" -> el.layer = r.data[1]
    [] r.tag = "DATATYPE" -> el.data_type = r.data[1]
    [] r.tag = "TEXTTYPE" -> el.text_type = r.data[1]
    [] r.tag = "NODETYPE" -> el.node_type = r.data[1]
    [] r.tag = "BOXTYPE" -> el.box_type = r.data[1]
    [] r.tag = "SNAME" -> el.struct_name = r.data
    [] r.tag = "COLROW" -> el.cols = r.data[1] /\ el.rows = r.data[2]
    [] r.tag = "XY" -> el.points = r.data
    [] r.tag = "STRING" -> el.string = r.data
    [] r.tag = "PRESENTATION" -> el.presentation = Some(r.data)
    [] r.tag = "STRANS" -> el.strans = Some(r.data)
    [] r.tag = "PATHTYPE" -> el.path_type = Some(r.data[1])
    [] r.tag = "WIDTH" -> el.width = Some(r.data[1])
    [] r.tag = "BGNEXTN" -> el.bgn_extn = Some(r.data[1])
    [] r.tag = "ENDEXTN" -> el.end_extn = Some(r.data[1])
    [] r.tag = "MAG" -> el.mag = Some(r.data[1])
    [] r.tag = "ANGLE" -> el.angle = Some(r.data[1])
    [] OTHER -> TRUE

\* The attribute an optional record is decoded into.
OptionalField(tag) ==
  CASE tag = "PRESENTATION" -> "presentation"
    [] tag = "STRANS" -> "strans"
    [] tag = "PATHTYPE" -> "path_type"
    [] tag = "WIDTH" -> "width"
    [] tag = "BGNEXTN" -> "bgn_extn"
    [] tag = "ENDEXTN" -> "end_extn"
    [] tag = "MAG" -> "mag"
    [] tag = "ANGLE" -> "angle"

\* A statement that checks the record in hand, pulling nothing, is still to run.
PendingSites == {"layer_101", "sref_238", "sref_265", "aref_309"}
Settled == err # "none" \/ pc \notin PendingSites

\* load has dispatched, and its element class is known.
Dispatched == element_class \in Classes

\* ------------------------------------------------------------------ C1
\* C1: for each of the seven variants, a stream that carries the variant's
\* mandatory records in grammar order, no optional record, a point list that
\* meets the count rule, and then the end marker is decoded without error, and
\* every mandatory attribute of the returned element equals the value carried
\* by the corresponding record.
C1_MandatoryFieldsDecoded ==
  LET stream == Mandatory[element_class] \o <<"ENDEL">> IN
  (/\ Dispatched
   /\ IsPrefix(TagsOf(pulled), stream)
   /\ AllWellFormed(element_class, pulled))
  => /\ err \in {"none", "PrematureEndOfStream"}
     /\ TagsOf(pulled) = stream =>
          /\ err = "none"
          /\ result = <<new_element>>
          /\ \A i \in 1..Len(pulled) : Carries(result[1], pulled[i])

\* A Text element decoded from its mandatory records alone.
C1_Witness ==
  /\ element_class = "TextElement"
  /\ result # <<>>
  /\ TagsOf(pulled) = <<"LAYER", "TEXTTYPE", "XY", "STRING", "ENDEL">>

\* ------------------------------------------------------------------ C2
\* C2: every element load returns meets its variant's point-count rule, and a
\* stream whose coordinate record, at the place the grammar expects it,
\* carries a point list that breaks the rule fails with PointCountViolation
\* and returns no element.
C2_PointCountRule ==
  /\ result # <<>> => CountRule(element_class, Len(result[1].points))
  /\ (/\ Dispatched /\ Settled /\ pulled # <<>>
      /\ Last(pulled).tag = "XY"
      /\ TagsOf(Front(pulled)) \in FullBeforeXY[element_class]
      /\ AllWellFormed(element_class, Front(pulled))
      /\ ~CountRule(element_class, Len(Last(pulled).data)))
     => err = "PointCountViolation" /\ result = <<>>

\* A Box whose coordinate record carries six points was rejected.
C2_Witness ==
  /\ element_class = "BoxElement"
  /\ err = "PointCountViolation"
  /\ Len(rec.data) = 6
  /\ result = <<>>

\* ------------------------------------------------------------------ C3
\* C3: for the variants with optional attributes, every stream whose optional
\* records are a subset in the fixed relative order (mag and angle only after
\* strans) is decoded without error; in the returned element every optional
\* attribute whose record is absent is None and every one whose record is
\* present holds exactly what the record carries.
C3_OptionalSubsetsDecoded ==
  (/\ Dispatched
   /\ OptionalOrder[element_class] # <<>>
   /\ \E b \in Bodies[element_class] : IsPrefix(TagsOf(pulled), b \o <<"ENDEL">>)
   /\ AllWellFormed(element_class, pulled))
  => /\ err \in {"none", "PrematureEndOfStream"}
     /\ (pulled # <<>> /\ Last(pulled).tag = "ENDEL") =>
          /\ err = "none"
          /\ result = <<new_element>>
          /\ \A i \in 1..Len(pulled) : Carries(result[1], pulled[i])
          /\ \A j \in 1..Len(OptionalOrder[element_class]) :
               LET tag == OptionalOrder[element_class][j] IN
               (\A i \in 1..Len(pulled) : pulled[i].tag # tag)
                 => result[1][OptionalField(tag)] = None

\* A Text element decoded with all six optional records present.
C3_Witness ==
  /\ element_class = "TextElement"
  /\ result # <<>>
  /\ TagsOf(pulled) = <<"LAYER", "TEXTTYPE", "PRESENTATION", "PATHTYPE", "WIDTH",
                        "STRANS", "MAG", "ANGLE", "XY", "STRING", "ENDEL">>

\* ------------------------------------------------------------------ C4
\* Position of a tag in the fixed order of optional records, 0 when absent.
OrderIndex(class, tag) ==
  LET order == OptionalOrder[class]
      hits == {j \in 1..Len(order) : order[j] = tag} IN
  IF hits = {} THEN 0 ELSE CHOOSE j \in hits : TRUE

\* The last two records pulled are optional records of the variant in the
\* reverse of their fixed order, the first of the two at a place where the
\* grammar admits it, and every record is well formed.
ReversedOptionalPair ==
  /\ Dispatched /\ Len(pulled) >= 2
  /\ LET t == TagsOf(pulled)
         n == Len(pulled)
         a == OrderIndex(element_class, t[n])
         b == OrderIndex(element_class, t[n - 1]) IN
       /\ a > 0 /\ b > 0 /\ a < b
       /\ \E body \in FullBodies[element_class] : IsPrefix(Front(t), body)
  /\ AllWellFormed(element_class, pulled)

\* C4: a stream that supplies two optional records in the reverse of their
\* fixed relative order fails with UnexpectedTag and returns no element: the
\* out-of-order record is neither accepted nor skipped.
C4_OutOfOrderRejected ==
  (ReversedOptionalPair /\ Settled) => err = "UnexpectedTag" /\ result = <<>>

\* An array reference with angle before mag was rejected at the mag record.
C4_Witness ==
  /\ element_class = "ARefElement"
  /\ ReversedOptionalPair
  /\ Last(pulled).tag = "MAG"
  /\ err = "UnexpectedTag"

\* ------------------------------------------------------------------ C5
\* s is a prefix of a trailer: (PROPATTR PROPVALUE)* ENDEL.
TrailerOK(s) ==
  \A i \in 1..Len(s) :
    IF i % 2 = 1 THEN s[i] = "PROPATTR" \/ (s[i] = "ENDEL" /\ i = Len(s))
    ELSE s[i] = "PROPVALUE"

\* The tags t are a prefix of a stream of the variant's grammar: common
\* prefix, kind-specific part, trailer.
ValidStreamPrefix(class, t) ==
  \E b \in FullBodies[class] :
    \/ IsPrefix(t, b)
    \/ IsPrefix(b, t) /\ TrailerOK(SubSeq(t, Len(b) + 1, Len(t)))

\* The properties map a trailer stands for: each key supplied, mapped to the
\* value of the last pair that carries it.
ExpectedProperties(s) ==
  LET keyAt == {i \in 1..(Len(s) - 1) : s[i].tag = "PROPATTR" /\ s[i + 1].tag = "PROPVALUE"}
      keys == {s[i].data[1] : i \in keyAt} IN
  [k \in keys |->
     LET last == CHOOSE i \in keyAt :
                   /\ s[i].data[1] = k
                   /\ \A j \in keyAt : s[j].data[1] = k => j <= i IN
     s[last + 1].data]

\* C5: a stream whose kind-specific part is valid and whose trailer is n >= 0
\* (property-key, property-value) pairs and then the end marker is decoded
\* without error into an element whose properties map has exactly the keys
\* supplied, each mapped to the value of the last pair that carried it.
C5_PropertiesDecoded ==
  (/\ Dispatched
   /\ ValidStreamPrefix(element_class, TagsOf(pulled))
   /\ AllWellFormed(element_class, pulled))
  => /\ err \in {"none", "PrematureEndOfStream"}
     /\ (pulled # <<>> /\ Last(pulled).tag = "ENDEL") =>
          /\ result = <<new_element>>
          /\ DOMAIN result[1].properties = DOMAIN ExpectedProperties(pulled)
          /\ \A k \in DOMAIN ExpectedProperties(pulled) :
               result[1].properties[k] = ExpectedProperties(pulled)[k]

\* ------------------------------------------------------------------ C6
\* Index of the last kind-specific record: the trailer starts after it.
KindEnd(class, t) ==
  LET tag == IF class = "TextElement" THEN "STRING" ELSE "XY"
      hits == {i \in 1..Len(t) : t[i] = tag} IN
  IF hits = {} THEN 0 ELSE CHOOSE i \in hits : \A j \in hits : i <= j

\* C6: a successful decode stops exactly at the end marker: when load has
\* returned, the last record pulled from the source is an end-of-element
\* record at a trailer position and no earlier trailer record is one, so no
\* record after the end marker has been pulled.
C6_StopsAtEndMarker ==
  result # <<>> =>
    LET t == TagsOf(pulled)
        k == KindEnd(element_class, t) IN
    /\ k > 0 /\ k < Len(t)
    /\ t[Len(t)] = "ENDEL"
    /\ \A i \in (k + 1)..(Len(t) - 1) : t[i] # "ENDEL"

\* A Node was returned when its end marker had been pulled.
C6_Witness ==
  /\ element_class = "NodeElement"
  /\ result # <<>>
  /\ Last(pulled).tag = "ENDEL"
  /\ pc = "done"

\* ------------------------------------------------------------------ C7
\* The attributes a fixed-arity record is decoded into.
FieldsOfTag(tag) ==
  CASE tag = "LAYER" -> {"layer"}
    [] tag = "DATATYPE" -> {"data_type"}
    [] tag = "TEXTTYPE" -> {"text_type"}
    [] tag = "NODETYPE" -> {"node_type"}
    [] tag = "BOXTYPE" -> {"box_type"}
    [] tag = "COLROW" -> {"cols", "rows"}
    [] OTHER -> {OptionalField(tag)}

\* The last record pulled is a fixed-arity record at a place where the grammar
\* admits its tag, with the wrong number of data items; the records before it
\* are well formed.
WrongSizeRecord ==
  /\ Dispatched /\ pulled # <<>>
  /\ Last(pulled).tag \in FixedArityTags
  /\ Len(Last(pulled).data) # Arity(Last(pulled).tag)
  /\ \E b \in FullBodies[element_class] : IsPrefix(TagsOf(pulled), b)
  /\ AllWellFormed(element_class, Front(pulled))

\* C7: a fixed-arity record with the wrong number of data items makes the
\* decode fail with SizeMismatch, and the attribute it would have set still
\* holds its initial value.
C7_SizeMismatch ==
  WrongSizeRecord =>
    /\ result = <<>>
    /\ Settled => err = "SizeMismatch"
    /\ \A f \in FieldsOfTag(Last(pulled).tag) :
         new_element[f] = InitElement(element_class)[f]

\* An array reference was rejected at a column/row record of three items.
C7_Witness ==
  /\ WrongSizeRecord
  /\ Last(pulled).tag = "COLROW"
  /\ Len(Last(pulled).data) = 3
  /\ err = "SizeMismatch"

\* ------------------------------------------------------------------ C8
\* The table of the module's docstring: element-start tag to element class.
DocumentedClass(tag) ==
  CASE tag = "AREF" -> "ARefElement"
    [] tag = "BOUNDARY" -> "BoundaryElement"
    [] tag = "BOX" -> "BoxElement"
    [] tag = "NODE" -> "NodeElement"
    [] tag = "PATH" -> "PathElement"
    [] tag = "SREF" -> "SRefElement"
    [] tag = "TEXT" -> "TextElement"

\* C8: load dispatches on the tag of the first record alone: for each of the
\* seven element-start tags the element under construction is of the variant
\* the registry maps the tag to, it starts empty, the records pulled follow
\* that variant's grammar, and the registry is never changed.
C8_DispatchOnFirstTag ==
  /\ DOMAIN tag_to_class_map = StartTags
  /\ \A t \in StartTags : tag_to_class_map[t] = DocumentedClass(t)
  /\ lastrec.tag \in StartTags /\ pc # "load_48" =>
       /\ element_class = DocumentedClass(lastrec.tag)
       /\ DOMAIN new_element = DOMAIN InitElement(DocumentedClass(lastrec.tag))
       /\ pulled = <<>> => new_element = InitElement(DocumentedClass(lastrec.tag))
       /\ result # <<>> =>
            ValidStreamPrefix(DocumentedClass(lastrec.tag), TagsOf(pulled))

\* An array reference was returned for a first record tagged AREF.
C8_Witness ==
  /\ lastrec.tag = "AREF"
  /\ element_class = "ARefElement"
  /\ result # <<>>
  /\ "cols" \in DOMAIN result[1]

\* ------------------------------------------------------------------ C9
\* C9: load called with a first record whose tag is no element-start tag fails
\* with UnexpectedTag, without pulling any record from the source.
C9_UnknownStartTag ==
  (lastrec.tag \notin StartTags /\ (pc # "load_48" \/ err # "none"))
    => (err = "UnexpectedTag" /\ pulled = <<>>)

\* ------------------------------------------------------------------ C10
\* The stream pulled so far is no prefix of a well-formed stream of the
\* variant: it holds a wrong tag, a wrong size, a bad point count or a bad
\* trailer record.
Malformed(class, s) ==
  ~(ValidStreamPrefix(class, TagsOf(s)) /\ AllWellFormed(class, s))

\* C10: every error aborts the decode at once: a malformed record is never
\* passed over, an error leaves no returned element, the record that
\* triggered the error is the last one pulled, and after an error nothing
\* more is pulled and nothing is returned.
C10_ErrorsAbort ==
  /\ [](/\ err # "none" => result = <<>>
        /\ (Dispatched /\ Settled /\ Malformed(element_class, pulled)) =>
             /\ err \notin {"none", "PrematureEndOfStream"}
             /\ rec = Last(pulled)
             /\ ~Malformed(element_class, Front(pulled)))
  /\ [][err # "none" => pulled' = pulled /\ result' = <<>> /\ err' = err]_vars

\* A decode was aborted at a trailer record that is neither a property key
\* nor the end marker.
C10_Witness ==
  /\ err = "UnexpectedTag"
  /\ pc = "rest_65"
  /\ Last(pulled).tag = "XY"
  /\ result = <<>>

\* ------------------------------------------------------------------ C11
\* The kind-specific parts of the variant's grammar that s starts with.
BodiesRead(class, s) ==
  IF class \in Classes THEN {b \in FullBodies[class] : IsPrefix(b, TagsOf(s))}
  ELSE {}

\* The trailer records of s: what follows its kind-specific part.
TrailerRecs(class, s) ==
  IF BodiesRead(class, s) = {} THEN <<>>
  ELSE LET b == CHOOSE x \in BodiesRead(class, s) : TRUE IN
       SubSeq(s, Len(b) + 1, Len(s))

\* The records pulled after the kind-specific part.
Trailer == TrailerRecs(element_class, pulled)

\* The decode has pulled a whole kind-specific part of its variant.
InTrailer == BodiesRead(element_class, pulled) # {}

\* C11: in the trailer a property-key record must be followed at once by a
\* property-value record: the decode goes on from a well-formed key to the
\* next record, and when that record has any other tag (the end marker
\* included) it fails with UnexpectedTag and the key is not added to the
\* properties.
C11_KeyNeedsValue ==
  (InTrailer /\ AllWellFormed(element_class, pulled)) =>
    /\ (Len(Trailer) = 1 /\ Trailer[1].tag = "PROPATTR")
         => err \in {"none", "PrematureEndOfStream"}
    /\ (Len(Trailer) = 2 /\ Trailer[1].tag = "PROPATTR"
          /\ Trailer[2].tag # "PROPVALUE")
         => /\ err = "UnexpectedTag"
            /\ result = <<>>
            /\ Trailer[1].data[1] \notin DOMAIN new_element.properties

\* ------------------------------------------------------------------ C12
\* The last record pulled stands at a pair-start position of the trailer and
\* is neither a property key nor the end marker.
BadPairStart ==
  /\ Dispatched /\ pulled # <<>>
  /\ Last(pulled).tag \notin {"PROPATTR", "ENDEL"}
  /\ KindEnd(element_class, TagsOf(pulled)) \in 1..(Len(pulled) - 1)
  /\ InTrailer
  /\ AllWellFormed(element_class, Front(pulled))
  /\ Len(Trailer) % 2 = 1
  /\ TrailerOK(TagsOf(Front(Trailer)))
  /\ Last(Trailer).tag \notin {"PROPATTR", "ENDEL"}

\* C12: in the trailer a record at a pair-start position whose tag is neither
\* property-key nor end-of-element ends the decode with UnexpectedTag: it is
\* the last record pulled, and no element is returned.
C12_BadTrailerRecord ==
  BadPairStart =>
    /\ err = "UnexpectedTag"
    /\ rec = Last(pulled)
    /\ result = <<>>

\* A Boundary was rejected at a bare property-value record after its points.
C12_Witness ==
  /\ element_class = "BoundaryElement"
  /\ BadPairStart
  /\ TagsOf(pulled) = <<"LAYER", "DATATYPE", "XY", "PROPVALUE">>
  /\ err = "UnexpectedTag"
  /\ pc = "rest_65"

\* ------------------------------------------------------------------ C13
\* C13: the common prefix admits exactly four shapes before the kind-specific
\* records of every variant: nothing, element-flags, priority, element-flags
\* then priority.  After each of them the variant's first mandatory record is
\* accepted; a priority record before element-flags, or a repeated record, is
\* checked against the variant's first mandatory tag and rejected.
C13_CommonPrefixShapes ==
  Dispatched =>
    LET t == TagsOf(pulled) IN
    /\ t \in PrefixShapes => err \in {"none", "PrematureEndOfStream"}
    /\ (/\ t # <<>> /\ Settled
        /\ Front(t) \in PrefixShapes
        /\ Last(t) = HeadOf[element_class][1]
        /\ WellFormed(element_class, Last(pulled)))
       => err \in {"none", "PrematureEndOfStream"}
    /\ (/\ t # <<>> /\ Settled
        /\ Front(t) \in PrefixShapes
        /\ Last(t) \in {"ELFLAGS", "PLEX"}
        /\ t \notin PrefixShapes)
       => /\ err = "UnexpectedTag"
          /\ pc \in {"layer_101", "sref_238"}
          /\ rec = Last(pulled)
          /\ result = <<>>

\* A stream with priority before element-flags was rejected at the
\* element-flags record.
C13_Witness ==
  /\ TagsOf(pulled) = <<"PLEX", "ELFLAGS">>
  /\ err = "UnexpectedTag"
  /\ pc = "layer_101"

\* ------------------------------------------------------------------ C14
\* The tag occurs among the records pulled.
Pulled(tag) == \E i \in 1..Len(pulled) : pulled[i].tag = tag

\* The mandatory record that follows the transform block of a variant.
AfterTransform(class) == IF class = "ARefElement" THEN "COLROW" ELSE "XY"

\* C14: in StructureRef, ArrayRef and Text, mag and angle are looked for only
\* inside a transform block opened by strans.  A mag or angle record in a
\* stream without strans is checked against the next mandatory tag and
\* rejected; strans followed directly by the next mandatory record is
\* accepted, and mag and angle stay None.
C14_TransformNeedsStrans ==
  (Dispatched /\ element_class \in {"SRefElement", "ARefElement", "TextElement"}
     /\ pulled # <<>> /\ AllWellFormed(element_class, pulled))
  => LET t == TagsOf(pulled) IN
     /\ (/\ Last(t) \in {"MAG", "ANGLE"} /\ ~Pulled("STRANS") /\ Settled
         /\ \E b \in FullBodies[element_class] : IsPrefix(Front(t), b))
        => /\ err = "UnexpectedTag"
           /\ result = <<>>
           /\ new_element.mag = None /\ new_element.angle = None
     /\ (/\ Pulled("STRANS") /\ ~Pulled("MAG") /\ ~Pulled("ANGLE")
         /\ Pulled(AfterTransform(element_class))
         /\ \E b \in FullBodies[element_class] : IsPrefix(t, b \o <<"ENDEL">>))
        => /\ err \in {"none", "PrematureEndOfStream"}
           /\ new_element.mag = None /\ new_element.angle = None
           /\ \E i \in 1..Len(pulled) :
                pulled[i].tag = "STRANS" /\ new_element.strans = Some(pulled[i].data)
           /\ Last(t) = "ENDEL" => result = <<new_element>>

\* A structure reference with a mag record and no strans was rejected.
C14_Witness ==
  /\ element_class = "SRefElement"
  /\ TagsOf(pulled) = <<"SNAME", "MAG">>
  /\ err = "UnexpectedTag"
  /\ pc = "sref_265"

\* ------------------------------------------------------------------ C15
\* The tags the grammar of the variant admits after the tag sequence s.
NextTags(class, s) ==
  {b[Len(s) + 1] : b \in {x \in FullBodies[class] : IsPrefix(s, x) /\ Len(x) > Len(s)}}

\* The records before the last one follow the grammar and stop before the
\* body is complete, and the last record is none the grammar admits there:
\* a mandatory record is missing or replaced.
MandatoryMissing ==
  /\ Dispatched
  /\ pulled # <<>>
  /\ AllWellFormed(element_class, Front(pulled))
  /\ NextTags(element_class, TagsOf(Front(pulled))) # {}
  /\ Last(pulled).tag \notin NextTags(element_class, TagsOf(Front(pulled)))

\* C15: a stream that omits a mandatory record, or puts another record in its
\* place, fails and returns no element: the record found in the place of the
\* mandatory one raises the tag error, and an element is returned only after
\* a complete body (every mandatory record in its place) has been read.
C15_MandatoryRecordRequired ==
  /\ MandatoryMissing => /\ result = <<>>
                         /\ Settled => (err = "UnexpectedTag" /\ rec = Last(pulled))
  /\ result # <<>> => InTrailer

\* A text element whose coordinate record is followed by the end marker
\* instead of the string record was rejected.
C15_Witness ==
  /\ element_class = "TextElement"
  /\ MandatoryMissing
  /\ TagsOf(pulled) = <<"LAYER", "TEXTTYPE", "XY", "ENDEL">>
  /\ err = "UnexpectedTag"
  /\ pc = "text_389"

\* ------------------------------------------------------------------ C16
\* C16: one record of lookahead, no record skipped or read again.  The record
\* at hand is always the last one pulled; the i-th record pulled is the i-th
\* record of the stream; a step pulls at most one record; at a site where a
\* parser was handed the record that ended the chain before it, the next step
\* checks that very record and pulls nothing; and, as no record is passed
\* over, the records pulled without an error follow the grammar one by one.
C16_OneRecordLookahead ==
  /\ [](/\ pulled # <<>> => rec = Last(pulled)
        /\ \A i \in 1..Len(pulled) : pulled[i] \in RecordsAt(i, seed)
        /\ (Dispatched /\ err = "none" /\ Settled) =>
             ValidStreamPrefix(element_class, TagsOf(pulled)))
  /\ [][pulled' = pulled \/ pulled' = Append(pulled, rec')]_vars
  /\ [][(pc \in PendingSites /\ err = "none") => (pulled' = pulled /\ rec' = rec)]_vars

\* A structure reference whose transform chain was ended by the coordinate
\* record: that record was handed to read_element and accepted there.
C16_Witness ==
  /\ element_class = "SRefElement"
  /\ TagsOf(pulled) = <<"SNAME", "STRANS", "XY">>
  /\ rec = Last(pulled)
  /\ new_element.points = rec.data
  /\ pc = "rest_65"
  /\ err = "none"

\* ------------------------------------------------------------------ C17
\* C17: a decode terminates, and the trailer loop ends in one of three ways
\* only: the end marker (the element is returned), a tag or size error, or
\* the source's PrematureEndOfStream when the stream is exhausted; a decode
\* that met the exhausted stream returns no element.
C17_TrailerLoopEnds ==
  /\ (pc = "rest_65" /\ err # "none") =>
       err \in {"UnexpectedTag", "SizeMismatch", "PrematureEndOfStream"}
  /\ (pc = "done") => (result # <<>> /\ err = "none" /\ Last(pulled).tag = "ENDEL")
  /\ err = "PrematureEndOfStream" => result = <<>>

\* ------------------------------------------------------------------ C19
\* The last record pulled repeats an optional record of the variant: the
\* records before it follow the grammar up to some point before the
\* coordinates and already hold a record of its tag.
RepeatedOptional ==
  /\ Dispatched
  /\ Len(pulled) >= 2
  /\ \E k \in 1..Len(OptionalOrder[element_class]) :
       OptionalOrder[element_class][k] = Last(pulled).tag
  /\ \E i \in 1..(Len(pulled) - 1) : pulled[i].tag = Last(pulled).tag
  /\ \A i \in 1..(Len(pulled) - 1) : pulled[i].tag # "XY"
  /\ AllWellFormed(element_class, Front(pulled))
  /\ \E b \in FullBodies[element_class] : IsPrefix(TagsOf(Front(pulled)), b)

\* C19: each optional field is accepted at most once.  The second occurrence
\* of an optional record is tested only against later positions and then
\* against the mandatory tag, so the decode fails on it with the tag error,
\* returns no element, and the field keeps the value of the first occurrence.
C19_OptionalAtMostOnce ==
  (RepeatedOptional /\ Settled) =>
     /\ err = "UnexpectedTag"
     /\ rec = Last(pulled)
     /\ result = <<>>
     /\ \A i \in 1..(Len(pulled) - 1) : Carries(new_element, pulled[i])

\* A text element with two width records was rejected at the second.
C19_Witness ==
  /\ element_class = "TextElement"
  /\ RepeatedOptional
  /\ TagsOf(pulled) = <<"LAYER", "TEXTTYPE", "WIDTH", "WIDTH">>
  /\ err = "UnexpectedTag"
  /\ pc = "text_369"

\* ------------------------------------------------------------------ C20
\* The i-th record pulled is the coordinate record of the variant, in its
\* place after well-formed records, and its point list breaks the count rule.
BadCountAt(i) ==
  /\ pulled[i].tag = "XY"
  /\ TagsOf(SubSeq(pulled, 1, i - 1)) \in FullBeforeXY[element_class]
  /\ AllWellFormed(element_class, SubSeq(pulled, 1, i - 1))
  /\ ~CountRule(element_class, Len(pulled[i].data))

\* C20: the point-count check is made on the coordinate record before
\* anything after it is read.  A coordinate record that breaks the count rule
\* is the last record the decode pulls: no string record and no trailer
\* record is read after it, and the decode fails with the count error.
C20_CountCheckedBeforeNextPull ==
  Dispatched =>
    \A i \in 1..Len(pulled) :
      BadCountAt(i) =>
        /\ i = Len(pulled)
        /\ result = <<>>
        /\ Settled => (err = "PointCountViolation" /\ rec = pulled[i])

\* A text element with a two-point coordinate record failed on that record,
\* before the string was read.
C20_Witness ==
  /\ element_class = "TextElement"
  /\ TagsOf(pulled) = <<"LAYER", "TEXTTYPE", "XY">>
  /\ BadCountAt(3)
  /\ Len(pulled[3].data) = 2
  /\ err = "PointCountViolation"
  /\ pc = "text_356"

\* ------------------------------------------------------------------ C18
\* The statements from one next(recs) to the next: the code after the pull
\* and, where a method hands the record on, the check of that record.
Advance(at, class, el, r) ==
  LET out == PullOutcome(at, class, el, r) IN
  IF out.err = "none" /\ out.pc \in CheckSites
    THEN CheckOutcome(out.pc, class, out.el, r)
  ELSE out

\* The outcome of one decode of class run alone over the records s.
RECURSIVE SoloRun(_, _)
SoloRun(class, s) ==
  IF s = <<>> THEN Ok("base_58", InitElement(class))
  ELSE LET out == SoloRun(class, Front(s)) IN
       IF out.err # "none" \/ out.pc = "done" THEN out
       ELSE Advance(out.pc, class, out.el, Last(s))

\* The outcome of load run alone on the first record and the records s.
Solo(first, s) ==
  LET out == LoadDispatch(TagToClassMap, first) IN
  IF out.err # "none" THEN [pc |-> out.pc, el |-> <<>>, err |-> out.err]
  ELSE SoloRun(out.class, s)

\* Call d has run load's lookup and is not between a pull and its check.
CallSettled(d) ==
  /\ calls[d].pc # "load_48" \/ calls[d].err # "none"
  /\ calls[d].pc \notin CheckSites \/ calls[d].err # "none"

\* C18: decodes share no mutable state.  Under every interleaving of the
\* steps of two calls of load, each call stands where the same decode run
\* alone stands after the same first record and the same records consumed:
\* same position, same error (or the exhausted stream), same element fields
\* and properties, an element returned exactly when the solo run returns it;
\* the two calls construct different objects; and no step changes the fields
\* or properties of an element that was returned.
C18_NoSharedState ==
  /\ [](\A d \in Calls :
          CallSettled(d) =>
            LET c == calls[d]
                out == Solo(c.lastrec, c.pulled) IN
            /\ c.pc = out.pc
            /\ c.err = out.err \/ (c.err = "PrematureEndOfStream" /\ out.err = "none")
            /\ c.new_element # 0 => heap[c.new_element] = out.el
            /\ (c.result # <<>>) <=> (out.pc = "done")
            /\ c.result # <<>> => c.result = <<c.new_element>>)
  /\ [](\A d, e \in Calls :
          (d # e /\ calls[d].new_element # 0) =>
             calls[d].new_element # calls[e].new_element)
  /\ [][\A d \in Calls :
          calls[d].result # <<>> =>
            /\ calls'[d].result = calls[d].result
            /\ heap'[calls[d].result[1]] = heap[calls[d].result[1]]]_vars

\* Call 2 constructed its structure reference first and is in the middle of
\* its decode; call 1 started after it and has returned its boundary.
C18_Witness ==
  /\ calls[2].new_element = 1
  /\ calls[2].element_class = "SRefElement"
  /\ calls[2].pc = "sref_243"
  /\ calls[1].element_class = "BoundaryElement"
  /\ calls[1].result = <<2>>
  /\ heap[2].points = calls[1].pulled[3].data
  /\ heap[1].struct_name = calls[2].pulled[1].data

====
